---------------------------- MODULE Spec2Model ----------------------------
(***************************************************************************)
(* A model of the anomaly-detection notebook (src/Anomaly_Detection.ipynb). *)
(*                                                                         *)
(* Numbers.  The notebook computes in floating point; the model computes   *)
(* exactly, in integers, with the unit of each quantity fixed below:       *)
(*   - a per-sample reconstruction error, np.mean(np.square(a - b), axis=1)*)
(*     over the two axes of a sample, is kept as TWICE its value (the sum  *)
(*     of the two squares);                                                *)
(*   - a 95th percentile of such errors is kept as 20 times the            *)
(*     percentile of the kept errors (np.percentile interpolates linearly  *)
(*     at position 0.95*(n-1) = 19*(n-1)/20);                              *)
(*   - a silhouette score and a correlation are kept in tenths;            *)
(*   - dropout rates are kept in tenths, learning rates in units of 1e-4.  *)
(* The data sets are chosen so that the scaler's mean and standard         *)
(* deviation are integers and every normalised value is an integer.        *)
(*                                                                         *)
(* Optional values (Python's None) are boxed: None is the empty sequence   *)
(* and a present value v is <<v>>.                                         *)
(***************************************************************************)
EXTENDS Integers, Sequences, FiniteSets, TLC

VARIABLES
    \* AnomalyDetector.run
    files,          \* the model store: file name -> None | <<model>>
    detector,       \* None | <<the AnomalyDetector being run>>
    pc,             \* the position inside AnomalyDetector.run of that detector
    trace,          \* the steps run() has executed for that detector, in order
    file_at_start,  \* whether the detector's model file existed when run() started
    prev,           \* None | <<the detector of the last run() that returned>>
    nruns,          \* the number of run() calls that have ended
    \* tune_hyperparameters, candidate by candidate
    tune_train,     \* self.normalized_train
    tune_cands,     \* the candidates, in the order of itertools.product
    search,         \* best_sil, best_params, best_model
    sil_scores,     \* the score of each candidate evaluated so far
    tune_flags,     \* the anomaly flags of each candidate evaluated so far
    selected,       \* None | <<self.best_params, self.autoencoder>> after the loop
    tune_pc,        \* "loop" | "done" | "raised" | "saved" | "save_raised"
    \* model.fit with the EarlyStopping callback of build_and_train_model
    epochs,         \* the epochs argument
    epoch,          \* the number of epochs completed
    weights,        \* the model's weights: the epoch that produced them
    es,             \* the callback: wait, best, best_epoch, best_weights
    stop_training,  \* model.stop_training
    restore_at_end, \* whether the installed Keras restores in on_train_end
    lowest,         \* the lowest val_loss seen and the first epoch that had it
    fit_pc,         \* "fit" | "done"
    \* detect_malfunctioning_sensor
    corr_matrix,    \* the argument: a correlation matrix, in tenths
    malfunction,    \* None | <<the returned (sensor, avg_corr)>>
    \* compute_relative_trend
    errors,         \* the argument
    trend,          \* None | <<the returned value>>
    \* SituationAwareness.calculate_metrics
    m_errors,       \* reconstruction_errors
    m_anomalies,    \* anomalies
    m_threshold,    \* threshold
    metrics,        \* None | <<the returned dict>>
    \* main_anomaly_detection
    disk,           \* the model files in the working directory: name -> None | <<model>>
    tune_sensors,   \* the argument
    save_fig,       \* the argument
    main_data,      \* the parsed data: [train |-> samples, test |-> samples]
    sensor_results, \* the dict sensor_results
    sensor_performance, \* the dict sensor_performance
    figures,        \* the image files written to save_dir
    events,         \* the steps executed so far, each <<position of the sensor, step>>
    main_pc,        \* "run" | "visualize" | "summary" | "done" | "raised"
    \* the 80/20 split at the head of tune_hyperparameters
    split_input,    \* self.normalized_train
    split,          \* None | <<[tuning_holdout, tuning_train]>>
    \* interpret_sensor_performance
    performance,    \* the argument: the metrics of each sensor, in dict order
    messages        \* None | <<the messages printed, one set per sensor>>

runVars    == <<files, detector, pc, trace, file_at_start, prev, nruns>>
tuneVars   == <<tune_train, tune_cands, search, sil_scores, tune_flags, selected, tune_pc>>
fitVars    == <<epochs, epoch, weights, es, stop_training, restore_at_end, lowest, fit_pc>>
malfVars   == <<corr_matrix, malfunction>>
trendVars  == <<errors, trend>>
metricVars == <<m_errors, m_anomalies, m_threshold, metrics>>
mainVars   == <<disk, tune_sensors, save_fig, main_data, sensor_results,
                sensor_performance, figures, events, main_pc>>
splitVars  == <<split_input, split>>
interpVars == <<performance, messages>>

vars == <<runVars, tuneVars, fitVars, malfVars, trendVars, metricVars,
         mainVars, splitVars, interpVars>>

\* main_anomaly_detection, the tuner's split and the interpretation
laterVars == <<mainVars, splitVars, interpVars>>

notRun    == <<tuneVars, fitVars, malfVars, trendVars, metricVars, laterVars>>
notTune   == <<runVars, fitVars, malfVars, trendVars, metricVars, laterVars>>
notFit    == <<runVars, tuneVars, malfVars, trendVars, metricVars, laterVars>>
notMalf   == <<runVars, tuneVars, fitVars, trendVars, metricVars, laterVars>>
notTrend  == <<runVars, tuneVars, fitVars, malfVars, metricVars, laterVars>>
notMetric == <<runVars, tuneVars, fitVars, malfVars, trendVars, laterVars>>
firstVars == <<runVars, tuneVars, fitVars, malfVars, trendVars, metricVars>>
notMain   == <<firstVars, splitVars, interpVars>>
notSplit  == <<firstVars, mainVars, interpVars>>
notInterp == <<firstVars, mainVars, splitVars>>

None == <<>>
Some(v) == <<v>>

(***************************************************************************)
(* Bounds of the model.                                                    *)
(***************************************************************************)
MaxRuns == 3

(***************************************************************************)
(* Arithmetic helpers.                                                     *)
(***************************************************************************)
RECURSIVE SumSeq(_)
SumSeq(s) == IF s = <<>> THEN 0 ELSE Head(s) + SumSeq(Tail(s))

Column(data, k) == [i \in 1..Len(data) |-> data[i][k]]

Square(x) == x * x

\* np.mean of a column (exact for the model's data sets)
Mean(col) == SumSeq(col) \div Len(col)

\* np.var of a column (population variance, as StandardScaler computes it)
Variance(col) ==
    LET m == Mean(col)
    IN  SumSeq([i \in 1..Len(col) |-> Square(col[i] - m)]) \div Len(col)

\* the square root of a perfect square
Sqrt(v) == CHOOSE r \in 0..v : r * r = v

(***************************************************************************)
(* normalize_data: StandardScaler fitted on the training data only, then   *)
(* applied to train and test.  A zero standard deviation is replaced by 1  *)
(* (sklearn's handling of constant features).                              *)
(***************************************************************************)
ScalerFit(train) ==
    [mean_  |-> <<Mean(Column(train, 1)), Mean(Column(train, 2))>>,
     scale_ |-> LET s1 == Sqrt(Variance(Column(train, 1)))
                    s2 == Sqrt(Variance(Column(train, 2)))
                IN  <<IF s1 = 0 THEN 1 ELSE s1, IF s2 = 0 THEN 1 ELSE s2>>]

Transform(scaler, data) ==
    [i \in 1..Len(data) |->
        <<(data[i][1] - scaler.mean_[1]) \div scaler.scale_[1],
          (data[i][2] - scaler.mean_[2]) \div scaler.scale_[2]>>]

InverseTransform(scaler, data) ==
    [i \in 1..Len(data) |->
        <<data[i][1] * scaler.scale_[1] + scaler.mean_[1],
          data[i][2] * scaler.scale_[2] + scaler.mean_[2]>>]

normalize_data(train_data, test_data) ==
    LET scaler == ScalerFit(train_data)
    IN  [normalized_train |-> Transform(scaler, train_data),
         normalized_test  |-> Transform(scaler, test_data),
         scaler           |-> scaler]

(***************************************************************************)
(* The autoencoder.  Its weights are the outcome of training, which the    *)
(* model leaves open: a trained model is one of three functions of a       *)
(* normalised sample.                                                      *)
(*   "ident": reconstructs every sample exactly;                           *)
(*   "mean":  reconstructs every sample as the training mean (0, 0);       *)
(*   "clip":  reconstructs samples within one standard deviation of the    *)
(*            mean exactly and clips the rest to it.                       *)
(***************************************************************************)
Models == {"ident", "mean", "clip"}

Clip(v) == IF v > 1 THEN 1 ELSE IF v < -1 THEN -1 ELSE v

\* model.predict(data)
Predict(m, data) ==
    [i \in 1..Len(data) |->
        CASE m = "ident" -> data[i]
          [] m = "mean"  -> <<0, 0>>
          [] m = "clip"  -> <<Clip(data[i][1]), Clip(data[i][2])>>]

\* np.mean(np.square(a - b), axis=1), kept as twice its value
MeanSquare(a, b) ==
    [i \in 1..Len(a) |-> Square(a[i][1] - b[i][1]) + Square(a[i][2] - b[i][2])]

\* np.percentile(errs, 95), kept as 20 times its value
Percentile95(errs) ==
    LET n   == Len(errs)
        s   == SortSeq(errs, <)
        pos == 19 * (n - 1)
        lo  == (pos \div 20) + 1
        r   == pos % 20
    IN  IF r = 0 THEN 20 * s[lo] ELSE 20 * s[lo] + r * (s[lo + 1] - s[lo])

\* errs > threshold, with errs and threshold in their kept units
Exceeds(errs, threshold) == [i \in 1..Len(errs) |-> 20 * errs[i] > threshold]


(***************************************************************************)
(* Inputs: sensor names, data sets and parameter grids.                    *)
(* A name is a sequence of tokens, so that str.replace(' ', '_') acts on   *)
(* it.  A sample is <<x, y>>.                                              *)
(***************************************************************************)
SensorNames == {<<"Sensor", " ", "1">>, <<"Sensor", " ", "2">>}

\* 16 samples; x has mean 4 and deviation 2, y has mean 2 and deviation 1
TrainSpread ==
    <<<<4, 1>>, <<4, 3>>, <<0, 1>>, <<4, 3>>, <<4, 1>>, <<8, 3>>, <<4, 1>>, <<4, 3>>,
      <<4, 1>>, <<0, 3>>, <<4, 1>>, <<4, 3>>, <<4, 1>>, <<4, 1>>, <<4, 3>>, <<8, 3>>>>

\* 16 equal samples: both deviations are 0
TrainConstant == [i \in 1..16 |-> <<2, 2>>]

\* 4 samples: too few for the tuner's 80/20 split
TrainShort == <<<<0, 0>>, <<2, 2>>, <<0, 2>>, <<2, 0>>>>

TrainSets == {TrainSpread, TrainConstant, TrainShort, <<>>}

TestSets == {<<<<4, 2>>, <<8, 3>>, <<12, 2>>>>,
             <<<<4, 1>>, <<0, 1>>, <<4, 3>>, <<6, 5>>>>}

GridTwo   == [dense_units |-> <<64, 128>>, dropout_rate |-> <<2>>,
              learning_rate |-> <<3>>, epochs |-> <<150>>]
GridFour  == [dense_units |-> <<64, 128>>, dropout_rate |-> <<2>>,
              learning_rate |-> <<3>>, epochs |-> <<150, 300>>]
GridEmpty == [dense_units |-> <<>>, dropout_rate |-> <<2, 3>>,
              learning_rate |-> <<3, 10>>, epochs |-> <<150, 300>>]

\* the grid tune_hyperparameters falls back to when param_grid is None
DefaultGrid == [dense_units |-> <<64, 128>>, dropout_rate |-> <<2, 3>>,
                learning_rate |-> <<3, 10>>, epochs |-> <<150, 300>>]

\* the defaults of build_and_train_model
DefaultParams == [dense_units |-> 64, dropout_rate |-> 2,
                  learning_rate |-> 3, epochs |-> 300]

(***************************************************************************)
(* The model store.                                                        *)
(***************************************************************************)
Replace(s, old, new) == [i \in 1..Len(s) |-> IF s[i] = old THEN new ELSE s[i]]

\* f"{sensor_name.replace(' ', '_')}_autoencoder.h5"
ModelFilename(sensor_name) == Replace(sensor_name, " ", "_") \o <<"_autoencoder.h5">>

FileNames == {ModelFilename(n) : n \in SensorNames}

\* faulty variant: the model file is never found
ExistsNever(store, filename) == FALSE

\* os.path.exists(model_filename)
Exists(store, filename) == store[filename] # None

(***************************************************************************)
(* Keras' fit with validation_split=0.2 raises when the data cannot be     *)
(* split into a non-empty training and a non-empty validation part.        *)
(***************************************************************************)
FitRaises(n_samples) == n_samples < 2

(***************************************************************************)
(* tune_hyperparameters.                                                   *)
(***************************************************************************)
\* best_sil = -np.inf: below every score
NegInf == -1000

\* sil_score = -1.0, the score of a candidate whose scoring raised
Sentinel == -10

\* the scores silhouette_score can return for two clusters: (-1, 1], in tenths.
\* A mean silhouette of exactly -1 needs every sample at distance 0 from the
\* other cluster, which two non-empty clusters split by a threshold never are.
RealScores == {3, 9}

\* itertools.product(*param_grid.values()): the last key varies fastest
Product(grid) ==
    LET nd == Len(grid.dense_units)
        nr == Len(grid.dropout_rate)
        nl == Len(grid.learning_rate)
        ne == Len(grid.epochs)
    IN  [k \in 1..(nd * nr * nl * ne) |->
            [dense_units   |-> grid.dense_units[((k - 1) \div (nr * nl * ne)) + 1],
             dropout_rate  |-> grid.dropout_rate[(((k - 1) \div (nl * ne)) % nr) + 1],
             learning_rate |-> grid.learning_rate[(((k - 1) \div ne) % nl) + 1],
             epochs        |-> grid.epochs[((k - 1) % ne) + 1]]]

\* int(n_samples * 0.2)
HoldoutSize(n_samples) == n_samples \div 5

\* normalized_train[-holdout_size:]  (a[-0:] is the whole array)
TuningHoldout(normalized_train) ==
    LET n == Len(normalized_train)
        h == HoldoutSize(n)
    IN  IF h = 0 THEN normalized_train ELSE SubSeq(normalized_train, n - h + 1, n)

\* normalized_train[:-holdout_size]  (a[:-0] is empty)
TuningTrain(normalized_train) ==
    LET n == Len(normalized_train)
        h == HoldoutSize(n)
    IN  IF h = 0 THEN <<>> ELSE SubSeq(normalized_train, 1, n - h)

\* silhouette_score raises unless 2 <= number of labels <= n_samples - 1
SilhouetteRaises(labels) ==
    LET n_labels == Cardinality({labels[i] : i \in 1..Len(labels)})
    IN  ~(1 < n_labels /\ n_labels < Len(labels))

\* One candidate's flags: the holdout errors of its trained model m against
\* their own 95th percentile.
CandidateFlags(holdout, m) ==
    LET reconstruction_errors == MeanSquare(holdout, Predict(m, holdout))
        threshold == Percentile95(reconstruction_errors)
    IN  Exceeds(reconstruction_errors, threshold)

\* faulty variant: a candidate whose scoring raised gets the best score instead of the worst
CandidateScoreHigh(holdout, m, s) ==
    IF SilhouetteRaises(CandidateFlags(holdout, m)) THEN 10 ELSE s

\* One candidate's score: the silhouette score of its flags (s when scoring
\* succeeds), -1.0 when scoring raises.
CandidateScore(holdout, m, s) ==
    IF SilhouetteRaises(CandidateFlags(holdout, m)) THEN Sentinel ELSE s

\* faulty variant: a later candidate with an equal score replaces the kept one
BetterOrEqual(sil_score, best_sil) == sil_score >= best_sil

\* if sil_score > best_sil: keep the candidate
Better(sil_score, best_sil) == sil_score > best_sil

\* {}
EmptyDict == <<>>

\* the state of the search before the first candidate
TuneStart == [best_sil |-> NegInf, best_params |-> EmptyDict, best_model |-> None]

\* faulty variant: best_params follows every candidate, the model only a better one
TuneIterLastParams(st, param_dict, m, sil_score) ==
    IF Better(sil_score, st.best_sil)
    THEN [best_sil |-> sil_score, best_params |-> param_dict,
          best_model |-> Some(m)]
    ELSE [st EXCEPT !.best_params = param_dict]

\* one iteration of the loop over the grid
TuneIter(st, param_dict, m, sil_score) ==
    IF Better(sil_score, st.best_sil)
    THEN [best_sil |-> sil_score, best_params |-> param_dict,
          best_model |-> Some(m)]
    ELSE st

\* the loop over candidates 1..k, candidate i training to outs[i][1] and
\* scoring outs[i][2] when its scoring succeeds
RECURSIVE TuneLoop(_, _, _, _)
TuneLoop(cands, holdout, outs, k) ==
    IF k = 0 THEN TuneStart
    ELSE TuneIter(TuneLoop(cands, holdout, outs, k - 1), cands[k], outs[k][1],
                  CandidateScore(holdout, outs[k][1], outs[k][2]))

\* the grid a detector tunes over
GridOf(d) == IF d.param_grid = None THEN DefaultGrid ELSE d.param_grid[1]

(***************************************************************************)
(* AnomalyDetector: one detector is constructed and run at a time (the     *)
(* notebook is single-threaded and calls run() once per detector); the     *)
(* model store outlives the detectors and is never cleared.                *)
(***************************************************************************)
\* AnomalyDetector.__init__
NewDetector(sensor_name, train_data, test_data, tune, param_grid) ==
    [sensor_name |-> sensor_name, train_data |-> train_data, test_data |-> test_data,
     tune |-> tune, param_grid |-> param_grid,
     autoencoder |-> None, normalized_train |-> None, normalized_test |-> None,
     scaler |-> None, threshold |-> None, anomalies |-> None,
     reconstruction_errors |-> None, train_errors |-> None,
     best_params |-> None, history |-> None]

\* the (tune, param_grid) pairs a detector is constructed with
TuneInputs == {<<FALSE, None>>, <<TRUE, Some(GridTwo)>>, <<TRUE, Some(GridEmpty)>>}

\* detector = AnomalyDetector(...); detector.run() is entered
Construct ==
    /\ pc = "idle"
    /\ nruns < MaxRuns
    /\ \E name \in SensorNames, train \in TrainSets, test \in TestSets, ti \in TuneInputs :
          /\ detector' = Some(NewDetector(name, train, test, ti[1], ti[2]))
          /\ file_at_start' = Exists(files, ModelFilename(name))
    /\ pc' = "normalize"
    /\ trace' = <<>>
    /\ UNCHANGED <<files, prev, nruns, notRun>>

\* self.normalize_data(); StandardScaler.fit raises on an empty array
Normalize ==
    /\ pc = "normalize"
    /\ LET d == detector[1]
       IN  IF d.train_data = <<>>
           THEN /\ pc' = "failed"
                /\ UNCHANGED detector
           ELSE LET r == normalize_data(d.train_data, d.test_data)
                IN  /\ detector' = Some([d EXCEPT
                                            !.normalized_train = Some(r.normalized_train),
                                            !.normalized_test  = Some(r.normalized_test),
                                            !.scaler           = Some(r.scaler)])
                    /\ pc' = "model"
    /\ trace' = Append(trace, "normalize")
    /\ UNCHANGED <<files, file_at_start, prev, nruns, notRun>>

\* if os.path.exists(model_filename): load_model
Load ==
    /\ pc = "model"
    /\ LET d == detector[1]
           model_filename == ModelFilename(d.sensor_name)
       IN  /\ Exists(files, model_filename)
           /\ detector' = Some([d EXCEPT
                                   !.autoencoder = files[model_filename],
                                   !.best_params = Some([info |-> "Model loaded from disk"])])
    /\ pc' = "detect"
    /\ trace' = Append(trace, "load")
    /\ UNCHANGED <<files, file_at_start, prev, nruns, notRun>>

\* build_and_train_model with its defaults: fit leaves some trained model
build_and_train_model(d, m) ==
    [d EXCEPT !.autoencoder = Some(m),
              !.history     = Some("History"),
              !.best_params = Some(DefaultParams)]

\* tune_hyperparameters: the search over the grid, then
\* self.best_params = best_params; self.autoencoder = best_model
tune_hyperparameters(d, outs) ==
    LET cands == Product(GridOf(d))
        st    == TuneLoop(cands, TuningHoldout(d.normalized_train[1]), outs, Len(cands))
    IN  [d EXCEPT !.best_params = Some(st.best_params),
                  !.autoencoder = st.best_model]

\* else: train or tune
Train ==
    /\ pc = "model"
    /\ LET d == detector[1]
           cands == Product(GridOf(d))
       IN  /\ ~Exists(files, ModelFilename(d.sensor_name))
           /\ IF d.tune
              THEN IF cands # <<>> /\ FitRaises(Len(TuningTrain(d.normalized_train[1])))
                   THEN /\ pc' = "failed"
                        /\ UNCHANGED detector
                   ELSE /\ \E outs \in [1..Len(cands) -> Models \X RealScores] :
                              detector' = Some(tune_hyperparameters(d, outs))
                        /\ pc' = "save"
              ELSE IF FitRaises(Len(d.normalized_train[1]))
                   THEN /\ pc' = "failed"
                        /\ UNCHANGED detector
                   ELSE /\ \E m \in Models :
                              detector' = Some(build_and_train_model(d, m))
                        /\ pc' = "save"
    /\ trace' = Append(trace, "train")
    /\ UNCHANGED <<files, file_at_start, prev, nruns, notRun>>

\* faulty variant: a missing model is skipped over instead of raising
SaveUnguarded ==
    /\ pc = "save"
    /\ LET d == detector[1]
       IN  files' = IF d.autoencoder = None THEN files
                    ELSE [files EXCEPT ![ModelFilename(d.sensor_name)] = d.autoencoder]
    /\ pc' = "detect"
    /\ trace' = Append(trace, "save")
    /\ UNCHANGED <<detector, file_at_start, prev, nruns, notRun>>

\* self.autoencoder.save(model_filename); None has no save
Save ==
    /\ pc = "save"
    /\ LET d == detector[1]
       IN  IF d.autoencoder = None
           THEN /\ pc' = "failed"
                /\ UNCHANGED files
           ELSE /\ files' = [files EXCEPT ![ModelFilename(d.sensor_name)] = d.autoencoder]
                /\ pc' = "detect"
    /\ trace' = Append(trace, "save")
    /\ UNCHANGED <<detector, file_at_start, prev, nruns, notRun>>

\* faulty variant: the threshold is taken from the test-set errors
detect_anomalies_leaky(d) ==
    LET normalized_reconstructed == Predict(d.autoencoder[1], d.normalized_test[1])
        reconstructed_original == InverseTransform(d.scaler[1], normalized_reconstructed)
        original_reconstruction_errors == MeanSquare(d.test_data, reconstructed_original)
        normalized_train_pred == Predict(d.autoencoder[1], d.normalized_train[1])
        reconstructed_train_original == InverseTransform(d.scaler[1], normalized_train_pred)
        original_train_errors == MeanSquare(d.train_data, reconstructed_train_original)
        threshold_original == Percentile95(original_reconstruction_errors)
        anomalies == Exceeds(original_reconstruction_errors, threshold_original)
    IN  [d EXCEPT !.reconstruction_errors = Some(original_reconstruction_errors),
                  !.train_errors = Some(original_train_errors),
                  !.threshold = Some(threshold_original),
                  !.anomalies = Some(anomalies)]

\* detect_anomalies
detect_anomalies(d) ==
    LET normalized_reconstructed == Predict(d.autoencoder[1], d.normalized_test[1])
        reconstructed_original == InverseTransform(d.scaler[1], normalized_reconstructed)
        original_reconstruction_errors == MeanSquare(d.test_data, reconstructed_original)
        normalized_train_pred == Predict(d.autoencoder[1], d.normalized_train[1])
        reconstructed_train_original == InverseTransform(d.scaler[1], normalized_train_pred)
        original_train_errors == MeanSquare(d.train_data, reconstructed_train_original)
        threshold_original == Percentile95(original_train_errors)
        anomalies == Exceeds(original_reconstruction_errors, threshold_original)
    IN  [d EXCEPT !.reconstruction_errors = Some(original_reconstruction_errors),
                  !.train_errors = Some(original_train_errors),
                  !.threshold = Some(threshold_original),
                  !.anomalies = Some(anomalies)]

\* return self.detect_anomalies()
Detect ==
    /\ pc = "detect"
    /\ detector' = Some(detect_anomalies(detector[1]))
    /\ pc' = "done"
    /\ trace' = Append(trace, "detect")
    /\ UNCHANGED <<files, file_at_start, prev, nruns, notRun>>

\* run() has returned or raised; the caller keeps a returned detector
Finish ==
    /\ pc \in {"done", "failed"}
    /\ prev' = IF pc = "done" THEN detector ELSE prev
    /\ detector' = None
    /\ pc' = "idle"
    /\ trace' = <<>>
    /\ nruns' = nruns + 1
    /\ UNCHANGED <<files, file_at_start, notRun>>

\* the state of each part of the program before it is entered
RunIdle ==
    /\ files = [f \in FileNames |-> None]
    /\ detector = None
    /\ pc = "idle"
    /\ trace = <<>>
    /\ file_at_start = FALSE
    /\ prev = None
    /\ nruns = 0

TuneIdle ==
    /\ tune_train = None /\ tune_cands = None /\ search = None /\ sil_scores = None
    /\ tune_flags = None /\ selected = None /\ tune_pc = "idle"

FitIdle ==
    /\ epochs = 0 /\ epoch = 0 /\ weights = 0 /\ es = None /\ stop_training = FALSE
    /\ restore_at_end = FALSE /\ lowest = None /\ fit_pc = "idle"

MalfIdle == corr_matrix = None /\ malfunction = None

TrendIdle == errors = None /\ trend = None

MetricIdle == m_errors = None /\ m_anomalies = None /\ m_threshold = 0 /\ metrics = None

MainIdle ==
    /\ disk = None /\ tune_sensors = FALSE /\ save_fig = FALSE /\ main_data = None
    /\ sensor_results = None /\ sensor_performance = None /\ figures = {}
    /\ events = <<>> /\ main_pc = "idle"

SplitIdle == split_input = None /\ split = None

InterpIdle == performance = None /\ messages = None

LaterIdle == MainIdle /\ SplitIdle /\ InterpIdle

FirstIdle == RunIdle /\ TuneIdle /\ FitIdle /\ MalfIdle /\ TrendIdle /\ MetricIdle

Init == RunIdle /\ TuneIdle /\ FitIdle /\ MalfIdle /\ TrendIdle /\ MetricIdle /\ LaterIdle

Next == Construct \/ Normalize \/ Load \/ Train \/ Save \/ Detect \/ Finish

Spec == Init /\ [][Next]_vars

(***************************************************************************)
(* Claims about AnomalyDetector.run (specification Spec).                  *)
(***************************************************************************)
Current == detector[1]

Running == detector # None

Did(step) == \E i \in 1..Len(trace) : trace[i] = step

\* the state part of C1
C1_RunState ==
    Running =>
        LET stored == files[ModelFilename(Current.sensor_name)]
        IN  /\ Did("train") => ~file_at_start
            /\ Did("load") => /\ file_at_start
                              /\ ~Did("train")
                              /\ Current.history = None
                              /\ Current.autoencoder = stored
            /\ (file_at_start /\ pc \in {"detect", "done"}) => Did("load")
            /\ (Did("train") /\ pc \in {"detect", "done"}) =>
                   /\ Did("save")
                   /\ stored # None
                   /\ stored = Current.autoencoder

\* the step part of C1: a persisted model is never replaced
C1_StoreKept == \A f \in FileNames : files[f] # None => files'[f] = files[f]

\* C1: over any sequence of run() calls against a store that is never cleared, a
\* run trains or tunes only if its sensor's model file did not exist when it
\* started, and such a run has persisted its model before it evaluates; once a
\* model is persisted every later run for that sensor loads exactly that model
\* and trains nothing, whatever its tune flag, grid and data.
C1_TrainOnceThenLoad == [](C1_RunState) /\ [][C1_StoreKept]_vars

\* a later run, constructed to tune on other data, loaded what an untuned run left
C1_Witness ==
    /\ Running /\ prev # None
    /\ pc = "done"
    /\ Did("load")
    /\ Current.tune /\ ~prev[1].tune
    /\ prev[1].sensor_name = Current.sensor_name
    /\ prev[1].train_data # Current.train_data
    /\ prev[1].history # None
    /\ Current.autoencoder = prev[1].autoencoder

\* C2: the threshold detect_anomalies sets is the 95th percentile of the
\* training-set reconstruction errors, and two detectors with the same training
\* data, scaler and model have the same threshold (and the same training
\* errors) whatever their test data are.
C2_ThresholdFromTrainOnly ==
    (Running /\ pc = "done") =>
        /\ Current.threshold = Some(Percentile95(Current.train_errors[1]))
        /\ (/\ prev # None
            /\ prev[1].train_data = Current.train_data
            /\ prev[1].scaler = Current.scaler
            /\ prev[1].autoencoder = Current.autoencoder)
           => /\ prev[1].threshold = Current.threshold
              /\ prev[1].train_errors = Current.train_errors

\* two evaluated detectors that differ in their test data, errors and flags only
C2_Witness ==
    /\ Running /\ prev # None
    /\ pc = "done"
    /\ prev[1].train_data = Current.train_data
    /\ prev[1].scaler = Current.scaler
    /\ prev[1].autoencoder = Current.autoencoder
    /\ prev[1].test_data # Current.test_data
    /\ prev[1].reconstruction_errors # Current.reconstruction_errors
    /\ Percentile95(prev[1].reconstruction_errors[1])
          # Percentile95(Current.reconstruction_errors[1])
    /\ prev[1].threshold = Current.threshold
    /\ \E i \in 1..Len(Current.anomalies[1]) : Current.anomalies[1][i]

\* the orders in which run() executes its steps
RunOrders == {<<"normalize", "load", "detect">>,
              <<"normalize", "train", "save", "detect">>}

IsPrefix(s, t) == Len(s) <= Len(t) /\ SubSeq(t, 1, Len(s)) = s

Results(d) == {d.threshold, d.anomalies, d.reconstruction_errors, d.train_errors}

\* C10: in every run() the steps executed so far are a prefix of normalize,
\* train-or-load (train then save, or load), evaluate; a run that returns has
\* executed one of these orders in full; the model is set only after the scaler
\* is fitted, detect_anomalies is entered only with a model, and threshold,
\* anomalies, reconstruction_errors and train_errors are unset before
\* detect_anomalies and all set after it.
C10_StepOrder ==
    Running =>
        /\ \E o \in RunOrders : IsPrefix(trace, o)
        /\ pc = "done" => trace \in RunOrders
        /\ (Did("train") \/ Did("load")) => Current.scaler # None
        /\ Current.autoencoder # None => Current.scaler # None
        /\ pc = "detect" => Current.autoencoder # None
        /\ ~Did("detect") => Results(Current) = {None}
        /\ Did("detect") => None \notin Results(Current)

\* a run that trained, and one that loaded, have both returned
C10_Witness ==
    /\ Running /\ prev # None
    /\ pc = "done"
    /\ trace = <<"normalize", "load", "detect">>
    /\ prev[1].history # None
    /\ None \notin Results(Current)

(***************************************************************************)
(* tune_hyperparameters, one candidate per step (specification SpecTune).  *)
(***************************************************************************)
TuneInit ==
    /\ tune_train \in {normalize_data(t, t).normalized_train :
                          t \in {TrainSpread, TrainConstant, TrainShort}}
    /\ tune_cands \in {Product(g) : g \in {GridTwo, GridFour, GridEmpty}}
    /\ search = TuneStart
    /\ sil_scores = <<>>
    /\ tune_flags = <<>>
    /\ selected = None
    /\ tune_pc = "loop"

\* the sensor of the detector being tuned
TunedSensor == <<"Sensor", " ", "1">>

\* model = build_autoencoder_with_params(...param_dict...); model.fit(...,
\* epochs=param_dict['epochs'], ...): the model object of a candidate, which
\* remembers the parameters it was built and trained with
TunedModel(param_dict, m) == [built_with |-> param_dict, net |-> m]

\* one pass of "for params in product(...)": build, fit, score, compare
TuneCandidate ==
    /\ tune_pc = "loop"
    /\ Len(sil_scores) < Len(tune_cands)
    /\ IF FitRaises(Len(TuningTrain(tune_train)))
       THEN /\ tune_pc' = "raised"
            /\ UNCHANGED <<search, sil_scores, tune_flags>>
       ELSE /\ \E m \in Models, s \in RealScores :
                  LET holdout == TuningHoldout(tune_train)
                      sil_score == CandidateScore(holdout, m, s)
                      param_dict == tune_cands[Len(sil_scores) + 1]
                  IN  /\ search' = TuneIter(search, param_dict,
                                            TunedModel(param_dict, m), sil_score)
                      /\ sil_scores' = Append(sil_scores, sil_score)
                      /\ tune_flags' = Append(tune_flags, CandidateFlags(holdout, m))
            /\ UNCHANGED tune_pc
    /\ UNCHANGED <<tune_train, tune_cands, selected, notTune>>

\* after the loop: self.best_params = best_params; self.autoencoder = best_model
TuneEnd ==
    /\ tune_pc = "loop"
    /\ Len(sil_scores) = Len(tune_cands)
    /\ selected' = Some([best_params |-> search.best_params,
                         autoencoder |-> search.best_model])
    /\ tune_pc' = "done"
    /\ UNCHANGED <<tune_train, tune_cands, search, sil_scores, tune_flags, notTune>>

\* run() after tune_hyperparameters has returned:
\* self.autoencoder.save(model_filename); None has no save
TuneSave ==
    /\ tune_pc = "done"
    /\ IF selected[1].autoencoder = None
       THEN /\ tune_pc' = "save_raised"
            /\ UNCHANGED files
       ELSE /\ files' = [files EXCEPT ![ModelFilename(TunedSensor)] =
                                          selected[1].autoencoder]
            /\ tune_pc' = "saved"
    /\ UNCHANGED <<tune_train, tune_cands, search, sil_scores, tune_flags, selected>>
    /\ UNCHANGED <<detector, pc, trace, file_at_start, prev, nruns>>
    /\ UNCHANGED <<fitVars, malfVars, trendVars, metricVars, laterVars>>

InitTune == RunIdle /\ TuneInit /\ FitIdle /\ MalfIdle /\ TrendIdle /\ MetricIdle /\ LaterIdle

NextTune == TuneCandidate \/ TuneEnd \/ TuneSave

SpecTune == InitTune /\ [][NextTune]_vars

(***************************************************************************)
(* Claims about tune_hyperparameters (specification SpecTune).             *)
(***************************************************************************)
Tuned == tune_pc = "done" /\ tune_cands # <<>>

\* the position in the grid of the selected candidate
SelectedIndex == CHOOSE k \in 1..Len(tune_cands) : tune_cands[k] = selected[1].best_params

IsMaxScore(k) == \A j \in 1..Len(sil_scores) : sil_scores[j] <= sil_scores[k]

\* C4: after the search the selected candidate has the maximum score of the grid
\* and no candidate before it in grid order has that score; for the scores
\* 0.3, 0.9, 0.9, -1.0 in grid order, the second candidate is selected.
C4_FirstMaximum ==
    Tuned =>
        /\ selected[1].best_params \in {tune_cands[k] : k \in 1..Len(tune_cands)}
        /\ IsMaxScore(SelectedIndex)
        /\ \A j \in 1..(SelectedIndex - 1) : sil_scores[j] < sil_scores[SelectedIndex]
        /\ search.best_sil = sil_scores[SelectedIndex]
        /\ sil_scores = <<3, 9, 9, Sentinel>> => SelectedIndex = 2

\* the grid scored 0.3, 0.9, 0.9, -1.0 and the second candidate is selected
C4_Witness ==
    /\ Tuned
    /\ sil_scores = <<3, 9, 9, Sentinel>>
    /\ SelectedIndex = 2
    /\ selected[1].autoencoder # None

Degenerate(k) == SilhouetteRaises(tune_flags[k])

\* C5: a candidate whose flags form a single cluster scores -1.0 and does not end
\* the search (every candidate of the grid is scored), and after the search the
\* selected candidate is not such a candidate whenever some candidate of the
\* grid split its holdout into two clusters.
C5_DegenerateNeverWins ==
    /\ tune_pc \in {"loop", "done"} =>
          \A k \in 1..Len(sil_scores) : Degenerate(k) => sil_scores[k] = Sentinel
    /\ tune_pc = "raised" => FitRaises(Len(TuningTrain(tune_train)))
    /\ tune_pc = "done" => Len(sil_scores) = Len(tune_cands)
    /\ (Tuned /\ \E k \in 1..Len(tune_cands) : ~Degenerate(k)) => ~Degenerate(SelectedIndex)

\* a degenerate candidate came first, the search went on, and a later candidate
\* with a two-cluster split is selected
C5_Witness ==
    /\ Tuned
    /\ Degenerate(1)
    /\ Len(tune_cands) > 2
    /\ Degenerate(Len(tune_cands))
    /\ ~Degenerate(SelectedIndex)

Returned == tune_pc \in {"done", "saved", "save_raised"}

\* C14: when tune_hyperparameters has returned and the grid yielded at least one
\* candidate, the model is not None and best_params are the parameters that
\* model was built and trained with, also when every candidate is degenerate;
\* the model is None exactly when the grid yielded no candidate, and then the
\* save step of run() raises and no model file is written.
C14_ModelIffCandidates ==
    /\ Returned =>
          /\ tune_cands # <<>> =>
                 /\ selected[1].autoencoder # None
                 /\ selected[1].autoencoder[1].built_with = selected[1].best_params
          /\ selected[1].autoencoder = None <=> tune_cands = <<>>
    /\ tune_pc = "saved" =>
          /\ tune_cands # <<>>
          /\ files[ModelFilename(TunedSensor)] = selected[1].autoencoder
    /\ tune_pc = "save_raised" =>
          /\ tune_cands = <<>>
          /\ \A f \in FileNames : files[f] = None

\* every candidate of a grid of several was degenerate, and the model of the
\* first one was selected and saved
C14_Witness ==
    /\ tune_pc = "saved"
    /\ Len(tune_cands) > 1
    /\ \A k \in 1..Len(tune_cands) : Degenerate(k)
    /\ selected[1].best_params = tune_cands[1]
    /\ selected[1].autoencoder[1].built_with = tune_cands[1]

\* the grid yielded no candidate, and the save step raised
C14_EmptyGridSaveRaised ==
    /\ tune_pc = "save_raised"
    /\ tune_cands = <<>>
    /\ selected[1].autoencoder = None

(***************************************************************************)
(* build_and_train_model's fit (specification SpecFit):                    *)
(*   early_stop = EarlyStopping(monitor='val_loss', patience=20,           *)
(*                              restore_best_weights=True)                 *)
(*   self.autoencoder.fit(..., epochs=epochs, validation_split=0.2,        *)
(*                        callbacks=[early_stop])                          *)
(* The weights after an epoch are named by that epoch (1, 2, ...); 0 names *)
(* the initial weights.  The notebook imports the callback from            *)
(* tensorflow.keras without pinning a version, and the versions differ in  *)
(* when the best weights are restored: Keras 2 (TensorFlow up to 2.15)     *)
(* restores them only at the epoch at which the callback stops training,   *)
(* Keras 3 restores them in on_train_end, however training ended.          *)
(* restore_at_end says which one is installed.                             *)
(***************************************************************************)
MaxEpochs == 23

MaxLoss == 3

\* patience=20
Patience == 20

\* the validation losses an epoch can end with
Losses == 1..MaxLoss

\* np.less(current, best), best starting at infinity
IsImprovement(current, best) == best = None \/ current < best[1]

\* EarlyStopping.on_epoch_end after the e-th epoch (Keras counts from 0), the
\* model holding the weights w of that epoch and val_loss being current
OnEpochEnd(cb, e, w, current) ==
    LET first == IF cb.best_weights = None THEN Some(w) ELSE cb.best_weights
    IN  IF IsImprovement(current, cb.best)
        THEN [wait |-> 0, best |-> Some(current), best_epoch |-> e - 1,
              best_weights |-> Some(w)]
        ELSE [cb EXCEPT !.wait = cb.wait + 1, !.best_weights = first]

\* if self.wait >= self.patience and epoch > 0
ShouldStop(cb, e) == cb.wait >= Patience /\ e - 1 > 0

FitInit ==
    /\ epochs \in 1..MaxEpochs
    /\ restore_at_end \in BOOLEAN
    /\ epoch = 0
    /\ weights = 0
    /\ es = [wait |-> 0, best |-> None, best_epoch |-> 0, best_weights |-> None]
    /\ stop_training = FALSE
    /\ lowest = None
    /\ fit_pc = "fit"

\* one epoch of training, its validation, and the callback's on_epoch_end
EpochEnd ==
    /\ fit_pc = "fit"
    /\ epoch < epochs
    /\ ~stop_training
    /\ \E current \in Losses :
          LET e   == epoch + 1
              cb  == OnEpochEnd(es, e, e, current)
          IN  /\ es' = cb
              /\ stop_training' = ShouldStop(cb, e)
              /\ weights' = IF ShouldStop(cb, e) /\ ~restore_at_end
                            THEN cb.best_weights[1] ELSE e
              /\ epoch' = e
              /\ lowest' = IF lowest = None \/ current < lowest[1].loss
                           THEN Some([loss |-> current, epoch |-> e]) ELSE lowest
    /\ UNCHANGED <<epochs, restore_at_end, fit_pc, notFit>>

\* training ends (all epochs ran, or stop_training): on_train_end, fit returns
TrainEnd ==
    /\ fit_pc = "fit"
    /\ epoch = epochs \/ stop_training
    /\ weights' = IF restore_at_end /\ es.best_weights # None
                  THEN es.best_weights[1] ELSE weights
    /\ fit_pc' = "done"
    /\ UNCHANGED <<epochs, epoch, es, stop_training, restore_at_end, lowest, notFit>>

InitFit == RunIdle /\ TuneIdle /\ FitInit /\ MalfIdle /\ TrendIdle /\ MetricIdle /\ LaterIdle

NextFit == EpochEnd \/ TrainEnd

SpecFit == InitFit /\ [][NextFit]_vars

(***************************************************************************)
(* Claims about build_and_train_model (specification SpecFit).             *)
(***************************************************************************)
\* C3: when fit has returned, the model holds the weights of the epoch with the
\* lowest validation loss seen, whether training was stopped early or ran
\* through all its epochs.
C3_BestWeightsKept == fit_pc = "done" => weights = lowest[1].epoch

\* what holds of the code: the best weights are held after an early stop, and
\* after a full run when the installed Keras restores in on_train_end
C3_BestWeightsWhenRestored ==
    (fit_pc = "done" /\ (stop_training \/ restore_at_end)) => weights = lowest[1].epoch

\* training ran through all its epochs, the last epoch was not the best, and the
\* model holds the last epoch's weights
C3_FinalWeightsKept ==
    /\ fit_pc = "done"
    /\ ~stop_training
    /\ weights = epochs
    /\ lowest[1].epoch < epochs

(***************************************************************************)
(* detect_malfunctioning_sensor (specification SpecMalf).                  *)
(* Correlations are in tenths.  An average correlation                     *)
(* (np.sum(corr_matrix[i]) - 1) / (num_sensors - 1) is kept as its         *)
(* numerator, the row sum less the diagonal's 1.0: (num_sensors - 1) times *)
(* the average, in tenths.                                                 *)
(***************************************************************************)
\* sensor_names = ['Sensor 1', 'Sensor 2', 'Sensor 3', 'Sensor 4']
SensorNameList == <<<<"Sensor", " ", "1">>, <<"Sensor", " ", "2">>,
                    <<"Sensor", " ", "3">>, <<"Sensor", " ", "4">>>>

\* threshold_diff=0.2
ThresholdDiff == 2

CorrSteps == 3

\* the correlations a pair of sensors can have: 1.0, 0.7, 0.4, 0.1, ...
CorrValues == {10 - 3 * k : k \in 0..CorrSteps}

\* np.argmin: the first position of the minimum
ArgMin(a) ==
    CHOOSE i \in 1..Len(a) :
        /\ \A j \in 1..Len(a) : a[i] <= a[j]
        /\ \A j \in 1..(i - 1) : a[j] > a[i]

\* faulty variant: the margin is met by a gap equal to it
detect_malfunctioning_sensor_ge(matrix, sensor_names, threshold_diff) ==
    LET num_sensors == Len(sensor_names)
        avg_corr    == [i \in 1..num_sensors |-> SumSeq(matrix[i]) - 10]
        min_index   == ArgMin(avg_corr)
        sorted_corr == SortSeq(avg_corr, <)
    IN  IF Len(sorted_corr) > 1
           /\ sorted_corr[2] - sorted_corr[1] >= threshold_diff * (num_sensors - 1)
        THEN [sensor |-> Some(sensor_names[min_index]), avg_corr |-> avg_corr]
        ELSE [sensor |-> None, avg_corr |-> avg_corr]

\* faulty variant: the first sensor is named instead of the least correlated one
detect_malfunctioning_sensor_first(matrix, sensor_names, threshold_diff) ==
    LET num_sensors == Len(sensor_names)
        avg_corr    == [i \in 1..num_sensors |-> SumSeq(matrix[i]) - 10]
        sorted_corr == SortSeq(avg_corr, <)
    IN  IF Len(sorted_corr) > 1
           /\ sorted_corr[2] - sorted_corr[1] > threshold_diff * (num_sensors - 1)
        THEN [sensor |-> Some(sensor_names[1]), avg_corr |-> avg_corr]
        ELSE [sensor |-> None, avg_corr |-> avg_corr]

detect_malfunctioning_sensor(matrix, sensor_names, threshold_diff) ==
    LET num_sensors == Len(sensor_names)
        avg_corr    == [i \in 1..num_sensors |-> SumSeq(matrix[i]) - 10]
        min_index   == ArgMin(avg_corr)
        sorted_corr == SortSeq(avg_corr, <)
    IN  IF Len(sorted_corr) > 1
           /\ sorted_corr[2] - sorted_corr[1] > threshold_diff * (num_sensors - 1)
        THEN [sensor |-> Some(sensor_names[min_index]), avg_corr |-> avg_corr]
        ELSE [sensor |-> None, avg_corr |-> avg_corr]

\* the symmetric matrices with a unit diagonal over the first n sensors
CorrMatrices(n) ==
    LET Pairs == {p \in (1..n) \X (1..n) : p[1] < p[2]}
    IN  {[i \in 1..n |-> [j \in 1..n |->
             IF i = j THEN 10 ELSE IF i < j THEN u[<<i, j>>] ELSE u[<<j, i>>]]] :
         u \in [Pairs -> CorrValues]}

MalfInit ==
    /\ \E n \in 2..Len(SensorNameList) : corr_matrix \in CorrMatrices(n)
    /\ malfunction = None

\* detect_malfunctioning_sensor(corr_matrix, sensor_names_list, threshold_diff=0.2)
DetectMalfunction ==
    /\ malfunction = None
    /\ malfunction' = Some(detect_malfunctioning_sensor(
                               corr_matrix, SubSeq(SensorNameList, 1, Len(corr_matrix)),
                               ThresholdDiff))
    /\ UNCHANGED <<corr_matrix, notMalf>>

InitMalf == RunIdle /\ TuneIdle /\ FitIdle /\ MalfInit /\ TrendIdle /\ MetricIdle /\ LaterIdle

NextMalf == DetectMalfunction

SpecMalf == InitMalf /\ [][NextMalf]_vars

(***************************************************************************)
(* Claims about detect_malfunctioning_sensor (specification SpecMalf).     *)
(***************************************************************************)
NumSensors == Len(corr_matrix)

\* (NumSensors - 1) times sensor i's average correlation with the others
AvgTimesOthers(i) == SumSeq(corr_matrix[i]) - 10

\* the margin on the same scale
Margin == ThresholdDiff * (NumSensors - 1)

Others(i) == (1..NumSensors) \ {i}

\* sensor i's average lies more than the margin below every other average
BelowByMore(i) == \A j \in Others(i) : AvgTimesOthers(j) - AvgTimesOthers(i) > Margin

\* sensor i's average lies at least the margin below every other average
BelowByAtLeast(i) == \A j \in Others(i) : AvgTimesOthers(j) - AvgTimesOthers(i) >= Margin

Flagged(i) == malfunction[1].sensor = Some(SensorNameList[i])

\* C6: detect_malfunctioning_sensor returns the sensor with the lowest average
\* correlation if and only if that average lies more than the margin (0.2)
\* below the second lowest; otherwise, and in particular when all averages lie
\* within 0.2 of each other, it returns None.
C6_FlaggedIffGapExceedsMargin ==
    malfunction # None =>
        /\ \A i \in 1..NumSensors : Flagged(i) <=> BelowByMore(i)
        /\ malfunction[1].sensor = None <=> ~\E i \in 1..NumSensors : BelowByMore(i)
        /\ (\A i, j \in 1..NumSensors : AvgTimesOthers(j) - AvgTimesOthers(i) <= Margin)
              => malfunction[1].sensor = None

\* a sensor other than the first is flagged
C6_Witness ==
    /\ malfunction # None
    /\ NumSensors = 3
    /\ Flagged(3)
    /\ BelowByMore(3)

\* C7 as stated: in a 4x4 matrix a sensor whose average lies at least 0.2 below
\* the next lowest, a gap of exactly 0.2 included, is flagged.
C7_FlaggedAtGapOfAtLeastMargin ==
    (malfunction # None /\ NumSensors = 4) =>
        \A i \in 1..NumSensors : BelowByAtLeast(i) => Flagged(i)

\* C7 as amended: in a 4x4 matrix a sensor whose average lies more than 0.2
\* below the next lowest is flagged; at a gap of exactly 0.2 no sensor is.
C7_FlaggedAboveMarginOnly ==
    (malfunction # None /\ NumSensors = 4) =>
        \A i \in 1..NumSensors :
            /\ BelowByMore(i) => Flagged(i)
            /\ (BelowByAtLeast(i) /\ ~BelowByMore(i)) => malfunction[1].sensor = None

\* a 4x4 matrix whose lowest average is 0.3 below the next, and its sensor flagged
C7_Witness ==
    /\ malfunction # None
    /\ NumSensors = 4
    /\ \E i \in 1..NumSensors :
          /\ Flagged(i)
          /\ \E j \in Others(i) : AvgTimesOthers(j) - AvgTimesOthers(i) = Margin + 3

(***************************************************************************)
(* compute_relative_trend (specification SpecTrend).                       *)
(* A returned float is kept as a fraction [num, den] with den # 0; 0.0 is  *)
(* [num |-> 0, den |-> 1].  The two means are over k samples each, so      *)
(* (end_mean - start_mean) / start_mean is the fraction of the two sums'   *)
(* difference over the first sum.                                          *)
(***************************************************************************)
MaxLen == 3

MaxValue == 3

LongLen == 20

Zero == [num |-> 0, den |-> 1]

Max(a, b) == IF a >= b THEN a ELSE b

\* faulty variant: the change is taken from the end to the start
compute_relative_trend_reversed(series) ==
    LET n == Len(series)
        k == Max(1, n \div 10)
        start_sum == SumSeq(SubSeq(series, 1, k))
        end_sum   == SumSeq(SubSeq(series, n - k + 1, n))
    IN  IF n < 2 THEN Zero
        ELSE IF start_sum = 0 THEN Zero
        ELSE [num |-> start_sum - end_sum, den |-> start_sum]

\* compute_relative_trend(errors, fraction=0.1); int(n * 0.1) is n \div 10
compute_relative_trend(series) ==
    LET n == Len(series)
        k == Max(1, n \div 10)
        start_sum == SumSeq(SubSeq(series, 1, k))
        end_sum   == SumSeq(SubSeq(series, n - k + 1, n))
    IN  IF n < 2 THEN Zero
        ELSE IF start_sum = 0 THEN Zero
        ELSE [num |-> end_sum - start_sum, den |-> start_sum]

\* reconstruction errors are means of squares: not negative
TrendValues == 0..MaxValue

\* every series of up to MaxLen samples, and the long series a + d*i
TrendInputs ==
    UNION {[1..n -> TrendValues] : n \in 0..MaxLen}
    \cup {[i \in 1..n |-> a + d * i] :
             n \in {LongLen, LongLen + 5}, a \in TrendValues, d \in 0..1}

TrendInit == errors \in TrendInputs /\ trend = None

ComputeTrend ==
    /\ trend = None
    /\ trend' = Some(compute_relative_trend(errors))
    /\ UNCHANGED <<errors, notTrend>>

InitTrend == RunIdle /\ TuneIdle /\ FitIdle /\ MalfIdle /\ TrendInit /\ MetricIdle /\ LaterIdle

NextTrend == ComputeTrend

SpecTrend == InitTrend /\ [][NextTrend]_vars

(***************************************************************************)
(* Claims about compute_relative_trend (specification SpecTrend).          *)
(***************************************************************************)
IsZero(q) == q.num = 0 /\ q.den # 0

IsPositive(q) == q.num * q.den > 0

Constant(series) == \A i, j \in 1..Len(series) : series[i] = series[j]

StrictlyIncreasing(series) == \A i \in 1..(Len(series) - 1) : series[i] < series[i + 1]

\* the sum of the first max(1, n div 10) samples: k times the baseline mean
StartSum(series) == SumSeq(SubSeq(series, 1, Max(1, Len(series) \div 10)))

\* C8 as stated: 0.0 for every constant series and for every series of fewer
\* than 2 samples, and a strictly positive value for every strictly increasing
\* series of at least 2 samples.
C8_PositiveOnEveryIncreasingSeries ==
    trend # None =>
        /\ Constant(errors) => IsZero(trend[1])
        /\ Len(errors) < 2 => IsZero(trend[1])
        /\ (StrictlyIncreasing(errors) /\ Len(errors) >= 2) => IsPositive(trend[1])

\* C8 as amended: 0.0 for every constant series and for every series of fewer
\* than 2 samples; for a strictly increasing series of at least 2 error values
\* the result is strictly positive when the baseline mean (the mean of the first
\* tenth of the samples) is positive, and 0.0 when the baseline mean is zero.
C8_PositiveOnIncreasingPositiveBaseline ==
    trend # None =>
        /\ Constant(errors) => IsZero(trend[1])
        /\ Len(errors) < 2 => IsZero(trend[1])
        /\ (StrictlyIncreasing(errors) /\ Len(errors) >= 2) =>
              /\ StartSum(errors) > 0 => IsPositive(trend[1])
              /\ StartSum(errors) = 0 => IsZero(trend[1])

\* a strictly increasing positive series long enough for two-sample windows
C8_Witness ==
    /\ trend # None
    /\ Len(errors) >= 20
    /\ StrictlyIncreasing(errors)
    /\ StartSum(errors) > 0
    /\ IsPositive(trend[1])

(***************************************************************************)
(* SituationAwareness.calculate_metrics (specification SpecMetrics).       *)
(* Errors and the threshold are in units of 1e-8, so that the epsilon of   *)
(* the risk level's denominator is 1.  Every returned float is a fraction  *)
(* [num, den]; a den of 0 is a division by zero.  error_std is kept as its *)
(* square.                                                                 *)
(***************************************************************************)
MaxError == 2

\* 1e-8
Epsilon == 1

RECURSIVE CountTrue(_)
CountTrue(flags) ==
    IF flags = <<>> THEN 0 ELSE (IF Head(flags) THEN 1 ELSE 0) + CountTrue(Tail(flags))

Overshoot(series, threshold) ==
    SumSeq([i \in 1..Len(series) |-> Max(series[i] - threshold, 0)])

\* faulty variant: no epsilon in the denominator
risk_level_no_epsilon(series, threshold) ==
    [num |-> Overshoot(series, threshold), den |-> Len(series) * threshold]

\* np.mean(np.maximum(reconstruction_errors - threshold, 0) / (threshold + 1e-8))
risk_level(series, threshold) ==
    [num |-> Overshoot(series, threshold), den |-> Len(series) * (threshold + Epsilon)]

\* calculate_metrics; sil is what silhouette_score returns when it does not raise
calculate_metrics(series, flags, threshold, sil) ==
    LET n == Len(series)
    IN  [anomaly_rate |-> [num |-> CountTrue(flags), den |-> n],
         error_mean   |-> [num |-> SumSeq(series), den |-> n],
         error_std    |-> [num |-> n * SumSeq([i \in 1..n |-> Square(series[i])])
                                   - Square(SumSeq(series)),
                           den |-> n * n],
         risk_level   |-> risk_level(series, threshold),
         trend        |-> compute_relative_trend(series),
         threshold    |-> threshold,
         silhouette_score |-> IF SilhouetteRaises(flags) THEN Sentinel ELSE sil]

\* the error series of a detector, its threshold (a percentile of squares, so
\* not negative) and its flags, anomalies = errors > threshold
MetricInit ==
    /\ m_errors \in UNION {[1..n -> 0..MaxError] : n \in 1..MaxLen}
    /\ m_threshold \in 0..MaxError
    /\ m_anomalies = [i \in 1..Len(m_errors) |-> m_errors[i] > m_threshold]
    /\ metrics = None

CalculateMetrics ==
    /\ metrics = None
    /\ \E sil \in RealScores :
          metrics' = Some(calculate_metrics(m_errors, m_anomalies, m_threshold, sil))
    /\ UNCHANGED <<m_errors, m_anomalies, m_threshold, notMetric>>

InitMetrics == RunIdle /\ TuneIdle /\ FitIdle /\ MalfIdle /\ TrendIdle /\ MetricInit /\ LaterIdle

NextMetrics == CalculateMetrics

SpecMetrics == InitMetrics /\ [][NextMetrics]_vars

(***************************************************************************)
(* Claims about calculate_metrics (specification SpecMetrics).             *)
(***************************************************************************)
\* C9 as stated: for every error series whose values are all equal and every
\* threshold, 0 included, risk_level is 0.0 and nothing is divided by zero.
C9_ZeroRiskOnEveryConstantSeries ==
    (metrics # None /\ Constant(m_errors)) => IsZero(metrics[1].risk_level)

\* C9 as amended: for every error series whose values are all equal and every
\* threshold that is not negative, 0 included, nothing is divided by zero, and
\* risk_level is 0.0 exactly when the common value does not exceed the
\* threshold; when it does, risk_level is (value - threshold) / (threshold + 1e-8).
C9_ZeroRiskWhenNotAboveThreshold ==
    (metrics # None /\ Constant(m_errors)) =>
        LET r == metrics[1].risk_level
            c == m_errors[1]
        IN  /\ r.den # 0
            /\ IsZero(r) <=> c <= m_threshold
            /\ c > m_threshold =>
                  r.num * (m_threshold + Epsilon) = (c - m_threshold) * r.den

\* a constant series at a threshold of 0, with a risk level of 0.0
C9_Witness ==
    /\ metrics # None
    /\ Len(m_errors) >= 2
    /\ Constant(m_errors)
    /\ m_threshold = 0
    /\ IsZero(metrics[1].risk_level)

(***************************************************************************)
(* main_anomaly_detection (specification SpecMain).                        *)
(* Python dicts keep insertion order: a dict is kept as its keys in that   *)
(* order and its values beside them.                                       *)
(* parse_sensor_data reads the four sensors from the same lines, so the    *)
(* four sensors have the same number of samples; here they also have the   *)
(* same samples.                                                           *)
(***************************************************************************)
\* {}
NewDict == [keys |-> <<>>, vals |-> <<>>]

\* d[key] = val
DictSet(d, key, val) ==
    IF \E k \in 1..Len(d.keys) : d.keys[k] = key
    THEN [d EXCEPT !.vals = [k \in 1..Len(d.keys) |->
                                 IF d.keys[k] = key THEN val ELSE d.vals[k]]]
    ELSE [keys |-> Append(d.keys, key), vals |-> Append(d.vals, val)]

\* faulty variant: the entries are visited from the last inserted to the first
ItemsReversed(d) ==
    [k \in 1..Len(d.keys) |-> <<d.keys[Len(d.keys) + 1 - k], d.vals[Len(d.keys) + 1 - k]>>]

\* d.items(): the entries in insertion order
Items(d) == [k \in 1..Len(d.keys) |-> <<d.keys[k], d.vals[k]>>]

\* the position of a sensor in sensor_names
PositionOf(sensor_name) ==
    CHOOSE i \in 1..Len(SensorNameList) : SensorNameList[i] = sensor_name

\* param_grid = {...} if tune_sensors else None
MainGrid(tune) ==
    IF tune THEN Some([dense_units |-> <<64, 128>>, dropout_rate |-> <<2, 3>>,
                       learning_rate |-> <<3, 10>>, epochs |-> <<150, 300>>])
    ELSE None

\* the model files of the four sensors
MainFileNames == {ModelFilename(SensorNameList[i]) : i \in 1..Len(SensorNameList)}

\* the test data of a sensor
MainTest == <<<<4, 2>>, <<8, 3>>, <<12, 2>>>>

\* f"{sensor_name.replace(' ', '_')}_<kind>.jpg" under save_dir
FigureTypes == {"training_history", "latent_space", "results", "reconstruction_errors"}

FigureName(sensor_name, kind) == Replace(sensor_name, " ", "_") \o <<"_", kind, ".jpg">>

\* AnomalyDetector.run as one computation: the detector and the model files it
\* leaves, the steps it executed, and whether it raised.  Every fit of this run
\* trains to the model m, and s is the silhouette score of a candidate whose
\* scoring succeeds.
run(d0, store, m, s) ==
    LET model_filename == ModelFilename(d0.sensor_name)
    IN  IF d0.train_data = <<>>
        THEN [detector |-> d0, disk |-> store, steps |-> <<"normalize">>, raised |-> TRUE]
        ELSE
        LET r  == normalize_data(d0.train_data, d0.test_data)
            d1 == [d0 EXCEPT !.normalized_train = Some(r.normalized_train),
                             !.normalized_test  = Some(r.normalized_test),
                             !.scaler           = Some(r.scaler)]
        IN  IF Exists(store, model_filename)
            THEN LET d2 == [d1 EXCEPT !.autoencoder = store[model_filename],
                                      !.best_params = Some([info |-> "Model loaded from disk"])]
                 IN  [detector |-> detect_anomalies(d2), disk |-> store,
                      steps |-> <<"normalize", "load", "detect">>, raised |-> FALSE]
            ELSE
            LET cands == Product(GridOf(d1))
                fit_raises ==
                    IF d1.tune
                    THEN cands # <<>> /\ FitRaises(Len(TuningTrain(d1.normalized_train[1])))
                    ELSE FitRaises(Len(d1.normalized_train[1]))
            IN  IF fit_raises
                THEN [detector |-> d1, disk |-> store,
                      steps |-> <<"normalize", "train">>, raised |-> TRUE]
                ELSE
                LET d2 == IF d1.tune
                          THEN tune_hyperparameters(d1, [k \in 1..Len(cands) |-> <<m, s>>])
                          ELSE build_and_train_model(d1, m)
                IN  IF d2.autoencoder = None
                    THEN [detector |-> d2, disk |-> store,
                          steps |-> <<"normalize", "train", "save">>, raised |-> TRUE]
                    ELSE [detector |-> detect_anomalies(d2),
                          disk |-> [store EXCEPT ![model_filename] = d2.autoencoder],
                          steps |-> <<"normalize", "train", "save", "detect">>,
                          raised |-> FALSE]

\* the call of main_anomaly_detection: the model files earlier sessions left,
\* the arguments, and the parsed data
MainInit ==
    /\ disk \in [MainFileNames -> {None, Some("ident")}]
    /\ tune_sensors \in BOOLEAN
    /\ save_fig \in BOOLEAN
    /\ main_data \in {[train |-> t, test |-> MainTest] : t \in {TrainSpread, TrainShort}}
    /\ sensor_results = NewDict
    /\ sensor_performance = NewDict
    /\ figures = {}
    /\ events = <<>>
    /\ main_pc = "run"

\* one pass of "for sensor_name in sensor_names": construct, run, keep
RunSensor ==
    /\ main_pc = "run"
    /\ LET i == Len(sensor_results.keys) + 1
           sensor_name == SensorNameList[i]
           d == NewDetector(sensor_name, main_data.train, main_data.test,
                            tune_sensors, MainGrid(tune_sensors))
       IN  \E m \in Models, s \in RealScores :
              LET r == run(d, disk, m, s)
              IN  /\ disk' = r.disk
                  /\ events' = events \o [k \in 1..Len(r.steps) |-> <<i, r.steps[k]>>]
                  /\ IF r.raised
                     THEN /\ main_pc' = "raised"
                          /\ UNCHANGED sensor_results
                     ELSE /\ sensor_results' = DictSet(sensor_results, sensor_name, r.detector)
                          /\ main_pc' = IF i = Len(SensorNameList) THEN "visualize" ELSE "run"
    /\ UNCHANGED <<tune_sensors, save_fig, main_data, sensor_performance, figures, notMain>>

\* the figures one pass of the second loop saves for a detector
SensorFigures(sensor_name, d) ==
    {FigureName(sensor_name, "reconstruction_errors"), FigureName(sensor_name, "results")}
    \cup (IF d.history # None THEN {FigureName(sensor_name, "training_history")} ELSE {})
    \cup {FigureName(sensor_name, "latent_space")}

\* one pass of "for sensor_name, results in sensor_results.items()": metrics,
\* then the plots
VisualizeSensor ==
    /\ main_pc = "visualize"
    /\ LET j == Len(sensor_performance.keys) + 1
           item == Items(sensor_results)[j]
       IN  /\ sensor_performance' = DictSet(sensor_performance, item[1], "metrics")
           /\ figures' = IF save_fig THEN figures \cup SensorFigures(item[1], item[2])
                         ELSE figures
           /\ events' = Append(events, <<PositionOf(item[1]), "visualize">>)
           /\ main_pc' = IF j = Len(sensor_results.keys) THEN "summary" ELSE "visualize"
    /\ UNCHANGED <<disk, tune_sensors, save_fig, main_data, sensor_results, notMain>>

\* the rest of main_anomaly_detection: interpretation, cross-correlation plot,
\* malfunction check, return
Summarise ==
    /\ main_pc = "summary"
    /\ figures' = IF save_fig THEN figures \cup {<<"cross_correlation.jpg">>} ELSE figures
    /\ main_pc' = "done"
    /\ UNCHANGED <<disk, tune_sensors, save_fig, main_data, sensor_results,
                   sensor_performance, events, notMain>>

InitMain == FirstIdle /\ MainInit /\ SplitIdle /\ InterpIdle

NextMain == RunSensor \/ VisualizeSensor \/ Summarise

SpecMain == InitMain /\ [][NextMain]_vars

(***************************************************************************)
(* Claims about main_anomaly_detection (specification SpecMain).           *)
(***************************************************************************)
Sensors == 1..Len(SensorNameList)

Happened(i, step) == \E p \in 1..Len(events) : events[p] = <<i, step>>

\* the steps of sensor i executed so far, in order
RECURSIVE StepsOf(_, _)
StepsOf(i, evs) ==
    IF evs = <<>> THEN <<>>
    ELSE IF Head(evs)[1] = i THEN <<Head(evs)[2]>> \o StepsOf(i, Tail(evs))
         ELSE StepsOf(i, Tail(evs))

\* C11: with figure saving enabled, when main_anomaly_detection has returned
\* there is for each of the four sensors one saved figure of each type
\* (training history, latent space, results, reconstruction errors), whether
\* the sensor's model was trained with the defaults, tuned or loaded.
C11_EveryFigureForEverySensor ==
    (main_pc = "done" /\ save_fig) =>
        \A i \in Sensors, kind \in FigureTypes :
            FigureName(SensorNameList[i], kind) \in figures

\* what holds of the code: the three other figures are saved for every sensor,
\* the training-history figure only for a sensor trained with the defaults in
\* this call
C11_HistoryFigureOnlyAfterDefaultTraining ==
    (main_pc = "done" /\ save_fig) =>
        \A i \in Sensors :
            /\ \A kind \in FigureTypes \ {"training_history"} :
                   FigureName(SensorNameList[i], kind) \in figures
            /\ FigureName(SensorNameList[i], "training_history") \in figures
                   <=> (Happened(i, "train") /\ ~tune_sensors)

\* the call tuned every sensor, returned, and saved no training-history figure
C11_TunedWithoutHistoryFigure ==
    /\ main_pc = "done" /\ save_fig /\ tune_sensors
    /\ \A i \in Sensors :
           /\ Happened(i, "train")
           /\ FigureName(SensorNameList[i], "training_history") \notin figures
           /\ FigureName(SensorNameList[i], "latent_space") \in figures

\* C12 as stated: the sensors are handled one after another in the order
\* Sensor 1..4, each one end-to-end (normalize, train or load, evaluate,
\* visualize) before any step of the next: no step of a sensor comes after a
\* step of a later sensor.
C12_EachSensorEndToEnd ==
    \A p, q \in 1..Len(events) : p < q => events[p][1] <= events[q][1]

\* C12 as amended: the sensors are handled in the order Sensor 1..4 in each of
\* two passes.  The first pass runs each sensor (normalize, train or load,
\* evaluate) before any step of the next sensor; the second pass visualizes each
\* sensor, and its first step comes only after the first pass has evaluated all
\* four sensors.
C12_TwoPassesEachInOrder ==
    /\ \A p, q \in 1..Len(events) :
           p < q =>
               /\ events[p][2] = "visualize" => events[q][2] = "visualize"
               /\ (events[p][2] = "visualize") = (events[q][2] = "visualize")
                      => events[p][1] <= events[q][1]
    /\ \A i \in Sensors :
           /\ \E o \in RunOrders :
                  IsPrefix(StepsOf(i, events), o \o <<"visualize">>)
           /\ Happened(i, "visualize") => \A j \in Sensors : Happened(j, "detect")
    /\ main_pc = "done" =>
           \A i \in Sensors : \E o \in RunOrders : StepsOf(i, events) = o \o <<"visualize">>

\* the call has returned, and Sensor 1 was visualized right after Sensor 4 was
\* evaluated
C12_Witness ==
    /\ main_pc = "done"
    /\ \E p \in 2..Len(events) :
           /\ events[p - 1] = <<Len(SensorNameList), "detect">>
           /\ events[p] = <<1, "visualize">>
    /\ events[Len(events)] = <<Len(SensorNameList), "visualize">>

(***************************************************************************)
(* The 80/20 split at the head of tune_hyperparameters (specification      *)
(* SpecSplit):                                                             *)
(*   holdout_size = int(n_samples * holdout_fraction)                      *)
(*   tuning_holdout = self.normalized_train[-holdout_size:]                *)
(*   tuning_train = self.normalized_train[:-holdout_size]                  *)
(* normalize_data raises on an empty training set, so the tuner is entered *)
(* with at least one sample.  The samples of an input are pairwise         *)
(* different, so that a part of the input determines its positions.        *)
(***************************************************************************)
MaxSamples == 14

SplitOffsets == 0..3

SplitInputs ==
    {[i \in 1..n |-> <<b + i, b>>] : n \in 1..MaxSamples, b \in SplitOffsets}

SplitInit ==
    /\ split_input \in SplitInputs
    /\ split = None

\* the three assignments
Split ==
    /\ split = None
    /\ split' = Some([tuning_holdout |-> TuningHoldout(split_input),
                      tuning_train   |-> TuningTrain(split_input)])
    /\ UNCHANGED <<split_input, notSplit>>

InitSplit == FirstIdle /\ MainIdle /\ SplitInit /\ InterpIdle

NextSplit == Split

SpecSplit == InitSplit /\ [][NextSplit]_vars

\* the last k samples of a series
LastOf(series, k) == SubSeq(series, Len(series) - k + 1, Len(series))

\* the holdout is the last floor(0.2*n) samples, the tuning-train part is the
\* samples before them (so the parts are disjoint and cover the input in
\* order), and the tuning-train part is the larger one
IsEightyTwenty(input, parts) ==
    /\ Len(parts.tuning_holdout) = (2 * Len(input)) \div 10
    /\ parts.tuning_holdout = LastOf(input, Len(parts.tuning_holdout))
    /\ parts.tuning_train \o parts.tuning_holdout = input
    /\ Len(parts.tuning_train) > Len(parts.tuning_holdout)

\* C13: for every number n of normalized training samples the holdout is the
\* last floor(0.2*n) samples and the tuning-train part the remaining first
\* samples: disjoint, together covering all n samples in order, the
\* tuning-train part the larger.
C13_EightyTwentyForEveryN ==
    split # None => IsEightyTwenty(split_input, split[1])

\* what holds of the code: the split is 80/20 from 5 samples on; below 5
\* samples the holdout is the whole input and the tuning-train part is empty
C13_EightyTwentyFromFiveSamples ==
    split # None =>
        IF Len(split_input) >= 5
        THEN IsEightyTwenty(split_input, split[1])
        ELSE /\ split[1].tuning_holdout = split_input
             /\ split[1].tuning_train = <<>>

\* 4 samples were split: all 4 are in the holdout and none in the tuning-train part
C13_WholeInputHeldOut ==
    /\ split # None
    /\ Len(split_input) = 4
    /\ Len(split[1].tuning_holdout) = 4
    /\ split[1].tuning_train = <<>>

(***************************************************************************)
(* interpret_sensor_performance (specification SpecInterp).                *)
(* The argument is kept as the metrics of the sensors in dict order, each  *)
(* with its risk_level, trend and silhouette_score (in tenths).  With n    *)
(* values v of sum S and d(j) = n*v[j] - S, np.mean is S/n and np.std (the  *)
(* population deviation) is sqrt(sum of d(j)^2 / n) / n, so                *)
(*   v[i] > mean + k*std   iff   d(i) > 0 and n*d(i)^2 > k^2 * sum d(j)^2. *)
(***************************************************************************)
MaxMetric == 2

RiskLevels == 0..MaxMetric

TrendLevels == {v - 1 : v \in 0..MaxMetric}

SilhouetteRows == {<<9, 9, 9, 9>>, <<8, 8, 8, 8>>, <<10, 8, Sentinel, 9>>}

\* n times the deviation of values[i] from the mean
Deviation(values, i) == Len(values) * values[i] - SumSeq(values)

SumSquaredDeviations(values) ==
    SumSeq([j \in 1..Len(values) |-> Square(Deviation(values, j))])

\* faulty variant: one deviation above the mean is enough
ExceedsByOneStd(values, i) ==
    /\ Deviation(values, i) > 0
    /\ Len(values) * Square(Deviation(values, i)) > SumSquaredDeviations(values)

\* values[i] > np.mean(values) + 2 * np.std(values)
ExceedsByTwoStd(values, i) ==
    /\ Deviation(values, i) > 0
    /\ Len(values) * Square(Deviation(values, i)) > 4 * SumSquaredDeviations(values)

\* the parts of the message printed for sensor i
Message(perf, i) ==
    LET risk_levels == [j \in 1..Len(perf) |-> perf[j].risk_level]
        trends      == [j \in 1..Len(perf) |-> perf[j].trend]
        parts == (IF ExceedsByTwoStd(risk_levels, i) THEN {"risk"} ELSE {})
                 \cup (IF ExceedsByTwoStd(trends, i) THEN {"trend"} ELSE {})
                 \cup (IF perf[i].silhouette_score < 9 THEN {"silhouette"} ELSE {})
    IN  IF parts = {} THEN {"consistent"} ELSE parts

\* interpret_sensor_performance
interpret_sensor_performance(perf) == [i \in 1..Len(perf) |-> Message(perf, i)]

\* sensor_performance of the four sensors
InterpInit ==
    /\ performance \in
          {[i \in Sensors |-> [risk_level |-> r[i], trend |-> t[i], silhouette_score |-> q[i]]] :
              r \in [Sensors -> RiskLevels], t \in [Sensors -> TrendLevels], q \in SilhouetteRows}
    /\ messages = None

Interpret ==
    /\ messages = None
    /\ messages' = Some(interpret_sensor_performance(performance))
    /\ UNCHANGED <<performance, notInterp>>

InitInterp == FirstIdle /\ MainIdle /\ SplitIdle /\ InterpInit

NextInterp == Interpret

SpecInterp == InitInterp /\ [][NextInterp]_vars

\* C15: with four sensors no sensor's risk level or trend is reported as above
\* average (none of four values exceeds their mean plus two population standard
\* deviations): each sensor's message is the low-silhouette message or the
\* "consistent with other sensors" message.
C15_NeverAboveAverage ==
    messages # None =>
        \A i \in 1..Len(performance) :
            /\ "risk" \notin messages[1][i]
            /\ "trend" \notin messages[1][i]
            /\ messages[1][i] = IF performance[i].silhouette_score < 9
                                THEN {"silhouette"} ELSE {"consistent"}

\* one sensor has the highest risk level and the highest trend the inputs allow
\* and the three others the lowest, and its message is the "consistent" one
C15_Witness ==
    /\ messages # None
    /\ \E i \in Sensors :
           /\ performance[i].risk_level = MaxMetric
           /\ performance[i].trend = MaxMetric - 1
           /\ \A j \in Sensors \ {i} :
                  performance[j].risk_level = 0 /\ performance[j].trend = -1
           /\ messages[1][i] = {"consistent"}

=============================================================================
